---- MODULE Spec2Model ----
(***************************************************************************)
(* Session lifecycle of the admin web client: the Pinia auth store         *)
(* (useAuthStore), the axios pipeline with its 401 refresh-and-retry       *)
(* interceptor, and the localStorage entries both of them write.           *)
(*                                                                         *)
(* Execution model: one event loop. A step of the model is one macrotask   *)
(* (a call of a store operation, or the arrival of one HTTP response and   *)
(* the interceptor code it runs up to its next await). When the pipeline   *)
(* settles a request, the awaiting store operation continues in a          *)
(* microtask, i.e. before any other macrotask: a request in state          *)
(* "settled" blocks every action but its own continuation.                 *)
(*                                                                         *)
(* The server is the environment: any response to any request. The store's *)
(* isLoading and error refs are display state that no operation reads;     *)
(* they are not part of the state here.                                    *)
(***************************************************************************)
EXTENDS Integers, Sequences, FiniteSets, TLC

\* ------------------------------------------------------------------ bounds
MaxReq == 2        \* request slots: requests that can be in flight at once
MaxTok == 3        \* token pairs the server issues in one behaviour
MaxAccounts == 2   \* accounts of the server that can sign in
MaxPending == 2    \* admins that may be waiting for approval
MaxSegs == 3       \* segments a token string may split into at its dots

ReqIds == 1..MaxReq
Toks == 0..MaxTok  \* 0: no token (null / absent entry); k > 0: the k-th issued pair

\* ------------------------------------------------------------------ values
\* AdminUser.role x AdminUser.status; the accounts the server knows are the
\* first MaxAccounts of this list.
AllPrincipals ==
  << [role |-> "SUPER_ADMIN", status |-> "ACTIVE"],
     [role |-> "ADMIN",       status |-> "PENDING"],
     [role |-> "ADMIN",       status |-> "ACTIVE"],
     [role |-> "SUPER_ADMIN", status |-> "INACTIVE"],
     [role |-> "ADMIN",       status |-> "REJECTED"],
     [role |-> "ADMIN",       status |-> "INACTIVE"],
     [role |-> "SUPER_ADMIN", status |-> "PENDING"],
     [role |-> "SUPER_ADMIN", status |-> "REJECTED"],
     [role |-> "ADMIN",       status |-> "SUSPENDED"] >>  \* not of the type

Accounts == 1..(IF MaxAccounts < Len(AllPrincipals) THEN MaxAccounts ELSE Len(AllPrincipals))
Principals == {AllPrincipals[i] : i \in Accounts}

NoUser == [role |-> "NONE", status |-> "NONE"]      \* user.value === null
NoTokens == [access |-> 0, refresh |-> 0]           \* tokens.value === null

\* (mutant: the fields are written in the other order)
Stringify_swapped(p) == <<p.status, p.role>>

\* JSON.stringify / JSON.parse of the principal: the stored entry is a string
\* (here: the tuple of its fields), <<>> is the absent entry.
Stringify(p) == <<p.role, p.status>>
Parse(s) == [role |-> s[1], status |-> s[2]]
NoEntry == <<>>
Corrupt == <<"{">>                  \* an entry JSON.parse throws on
Parseable(s) == Len(s) = 2

EmptyStore == [user |-> NoEntry, access |-> 0, refresh |-> 0]

VARIABLES
  user,        \* useAuthStore: user.value
  tokens,      \* useAuthStore: tokens.value
  ls,          \* localStorage: USER_INFO, ACCESS_TOKEN, REFRESH_TOKEN
  req,         \* the requests going through httpClient, by slot
  issued,      \* the server: number of token pairs issued so far
  redirected,  \* window.location.href was set to '/login'
  ret,         \* what the step just taken returned to its caller
  pendingAdmins, \* useAuthStore: pendingAdmins.value (the ids of its entries)
  nav          \* the navigation whose guard is being evaluated, or was last

vars == <<user, tokens, ls, req, issued, redirected, ret, pendingAdmins, nav>>

\* ------------------------------------------------------------ derived state
isAuthenticated == user # NoUser /\ tokens # NoTokens
isSuperAdmin == user.role = "SUPER_ADMIN"
isActiveAdmin == user.status = "ACTIVE"

\* (mutant: any signed-in admin may approve)
canApproveAdmins_anyAdmin == isAuthenticated

canApproveAdmins == isSuperAdmin /\ isActiveAdmin

StoreCleared == ls = EmptyStore

IdleReq ==
  [kind |-> "none", st |-> "idle", retry |-> FALSE, auth |-> 0, body |-> 0,
   rbody |-> 0, sends |-> 0, refreshes |-> 0, outcome |-> "none",
   got |-> 0, data |-> 0, puser |-> 0, peers |-> {},
   id |-> 0, reason |-> <<>>, list |-> <<>>]

NoRet == [op |-> "none", res |-> "none", via |-> "none"]
Ret(op, res, via) == [op |-> op, res |-> res, via |-> via]

\* What a guard passes to next: nothing (the navigation goes on), or a
\* location, here its name and its redirect query.
Allow == [name |-> "allow", redirect |-> "none"]
NoResult == [name |-> "none", redirect |-> "none"]
LoginRedirect(to) == [name |-> "Login", redirect |-> to]
Go(name) == [name |-> name, redirect |-> "none"]

\* to.meta of a route without meta fields
NoMeta ==
  [requiresAuth |-> FALSE, requiresActive |-> FALSE, hasRoles |-> FALSE,
   roles |-> {}, requiresSuperAdmin |-> FALSE, requiresApproval |-> FALSE]

\* No navigation: the state of nav before the first one and after a page load.
\* guard: the guard evaluated; pc: idle, await (suspended at refreshToken) or
\* done; req: the slot of the awaited call; to: to.fullPath; authed: the
\* session was Authenticated when the guard looked (in memory, or restored);
\* soon: the access token was expiring soon then; refresh: none, pending, ok
\* or failed; trail: the predicates a combined guard evaluated, with their
\* results; calls: calls of next; authAtNext: isAuthenticated when next ran.
NoNav ==
  [guard |-> "none", pc |-> "idle", req |-> 0, to |-> "none", meta |-> NoMeta,
   roles |-> {}, authed |-> FALSE, soon |-> FALSE, refresh |-> "none",
   trail |-> <<>>, calls |-> 0, result |-> NoResult, authAtNext |-> FALSE]

\* The guard awaits refreshToken and that call has just returned: the guard
\* continues in a microtask.
NavResuming == nav.pc = "await" /\ req[nav.req].kind # "refresh"

\* No continuation is pending: a new macrotask may run.
Quiet == (\A r \in ReqIds : req[r].st # "settled") /\ ~NavResuming

\* Slots are interchangeable: a new request takes the lowest free one.
FreeSlot(r) ==
  /\ req[r].st = "idle"
  /\ \A q \in ReqIds : q < r => req[q].st # "idle"

Refreshing == {r \in ReqIds : req[r].st = "refreshing"}

\* ------------------------------------------------------------ localStorage
\* saveTokens / the two setItem calls of the interceptor and of refreshToken
SaveTokens(store, a, r) == [store EXCEPT !.access = a, !.refresh = r]

\* the three removeItem calls
RemoveSession(store) == EmptyStore

\* ------------------------------------------------------------------ pipeline
\* Request interceptor: Authorization is the stored access token, if any;
\* otherwise the header the config already carries is kept.
AttachAuth(store, old) == IF store.access # 0 THEN store.access ELSE old

\* httpClient.request(config): a first submission
Submit(r, kind, body) ==
  req' = [req EXCEPT ![r] =
            [IdleReq EXCEPT !.kind = kind, !.st = "sent", !.body = body,
                            !.auth = AttachAuth(ls, 0), !.sends = 1]]

Init ==
  /\ user = NoUser
  /\ tokens = NoTokens
  /\ \/ ls = EmptyStore /\ issued = 0
     \/ \E i \in Accounts :
          /\ ls = [user |-> Stringify(AllPrincipals[i]), access |-> 1, refresh |-> 1]
          /\ issued = 1
     \/ ls = [user |-> Corrupt, access |-> 1, refresh |-> 1] /\ issued = 1
  /\ req = [r \in ReqIds |-> IdleReq]
  /\ redirected = FALSE
  /\ ret = NoRet
  /\ pendingAdmins = <<>>
  /\ nav = NoNav

\* Any request of the application other than the auth store's own
\* (HttpClient.get / post / put / delete).
ApiCall(r) ==
  /\ Quiet /\ FreeSlot(r)
  /\ Submit(r, "api", 0)
  /\ ret' = NoRet
  /\ UNCHANGED <<user, tokens, ls, issued, redirected, pendingAdmins, nav>>

\* (mutant: the _retry mark is not consulted)
ShouldRefresh_always(r) == TRUE

\* The response interceptor's condition for a refresh-and-retry, given a 401.
ShouldRefresh(r) == ~req[r].retry

\* The location the interceptor's catch block assigns to window.location.href:
\* the sign-in page, without a query.
LoginPage == [name |-> "Login", redirect |-> "none"]

\* The interceptor's catch block: the three entries are removed, the browser is
\* sent to /login and the request is rejected with the refresh failure.
RefreshFailed(r) ==
  /\ ls' = RemoveSession(ls)
  /\ redirected' = TRUE
  /\ req' = [req EXCEPT ![r].retry = TRUE, ![r].st = "settled",
                        ![r].outcome = "refreshErr"]

\* The interceptor awaits its own refresh call (plain axios, not httpClient),
\* made with the refresh token the store holds now.
StartRefresh(r) ==
  /\ req' = [q \in ReqIds |->
               IF q = r
                 THEN [req[r] EXCEPT !.retry = TRUE, !.st = "refreshing",
                                     !.rbody = ls.refresh,
                                     !.refreshes = @ + 1,
                                     !.peers = Refreshing]
               ELSE IF q \in Refreshing
                 THEN [req[q] EXCEPT !.peers = @ \cup {r}]
               ELSE req[q]]
  /\ UNCHANGED <<ls, redirected>>

\* A 401 response reaches the response interceptor.
Respond401(r) ==
  /\ Quiet /\ req[r].st = "sent"
  /\ IF ShouldRefresh(r)
       THEN IF ls.refresh = 0 THEN RefreshFailed(r) ELSE StartRefresh(r)
       ELSE /\ req' = [req EXCEPT ![r].st = "settled", ![r].outcome = "err401"]
            /\ UNCHANGED <<ls, redirected>>
  /\ ret' = NoRet
  /\ UNCHANGED <<user, tokens, issued, pendingAdmins, nav>>

\* (mutant: the rotated refresh token is not written to the store)
RetryWith_accessOnly(r, k) ==
  /\ ls' = SaveTokens(ls, k, ls.refresh)
  /\ req' = [req EXCEPT ![r].st = "sent", ![r].got = k, ![r].auth = k,
                        ![r].sends = @ + 1]

\* The refresh call of the interceptor succeeds with a new pair k: both token
\* entries are written, the header is reset and the request is submitted again
\* (through the request interceptor).
RetryWith(r, k) ==
  /\ ls' = SaveTokens(ls, k, k)
  /\ req' = [req EXCEPT ![r].st = "sent", ![r].got = k,
                        ![r].auth = AttachAuth(SaveTokens(ls, k, k), k),
                        ![r].sends = @ + 1]

RefreshOk(r) ==
  /\ Quiet /\ req[r].st = "refreshing"
  /\ issued < MaxTok
  /\ issued' = issued + 1
  /\ RetryWith(r, issued + 1)
  /\ ret' = NoRet
  /\ UNCHANGED <<user, tokens, redirected, pendingAdmins, nav>>

\* The refresh call of the interceptor fails (rejected, network error, or a
\* response without tokens).
RefreshFail(r) ==
  /\ Quiet /\ req[r].st = "refreshing"
  /\ RefreshFailed(r)
  /\ ret' = NoRet
  /\ UNCHANGED <<user, tokens, issued, pendingAdmins, nav>>

\* The ids of the admins the server may report as pending, and the lists it
\* may answer with (no id twice).
AdminIds == 1..MaxPending

PendingLists ==
  {l \in UNION {[1..n -> AdminIds] : n \in 0..MaxPending} :
     \A i, j \in 1..Len(l) : i # j => l[i] # l[j]}

\* A success response: the interceptor passes it on. A sign-in answers with a
\* principal and a new pair, a refresh with a new pair, the pending endpoint
\* with a list.
Respond200(r) ==
  /\ Quiet /\ req[r].st = "sent"
  /\ IF req[r].kind \in {"login", "refresh"}
       THEN /\ issued < MaxTok
            /\ issued' = issued + 1
            /\ \E i \in Accounts :
                 req' = [req EXCEPT ![r].st = "settled", ![r].outcome = "ok",
                           ![r].data = issued + 1,
                           ![r].puser = IF req[r].kind = "login" THEN i ELSE 0]
       ELSE IF req[r].kind = "pending"
         THEN /\ \E l \in PendingLists :
                   req' = [req EXCEPT ![r].st = "settled", ![r].outcome = "ok",
                                      ![r].list = l]
              /\ UNCHANGED issued
       ELSE /\ req' = [req EXCEPT ![r].st = "settled", ![r].outcome = "ok"]
            /\ UNCHANGED issued
  /\ ret' = NoRet
  /\ UNCHANGED <<user, tokens, ls, redirected, pendingAdmins, nav>>

\* Any other failure (status other than 401, network error, timeout) passes
\* through the interceptor unchanged.
RespondError(r) ==
  /\ Quiet /\ req[r].st = "sent"
  /\ req' = [req EXCEPT ![r].st = "settled", ![r].outcome = "errOther"]
  /\ ret' = NoRet
  /\ UNCHANGED <<user, tokens, ls, issued, redirected, pendingAdmins, nav>>

\* The slot of a finished request is free again.
Release(r) ==
  [q \in ReqIds |-> IF q = r THEN IdleReq
                    ELSE [req[q] EXCEPT !.peers = @ \ {r}]]

Settled(r, kind) == req[r].st = "settled" /\ req[r].kind = kind

ApiDone(r) ==
  /\ Settled(r, "api")
  /\ req' = Release(r)
  /\ ret' = Ret("api", IF req[r].outcome = "ok" THEN "resolved" ELSE "rejected",
                req[r].outcome)
  /\ UNCHANGED <<user, tokens, ls, issued, redirected, pendingAdmins, nav>>

\* ---------------------------------------------------------------- auth store
\* (mutant: the refs are reset, the entries are left in localStorage)
ClearAuthData_memoryOnly ==
  /\ user' = NoUser
  /\ tokens' = NoTokens
  /\ pendingAdmins' = <<>>
  /\ ls' = ls

\* clearAuthData
ClearAuthData ==
  /\ user' = NoUser
  /\ tokens' = NoTokens
  /\ pendingAdmins' = <<>>
  /\ ls' = RemoveSession(ls)

\* (mutant: the refresh token entry is not required)
Restore_withoutRefreshEntry ==
  IF ls.user # NoEntry /\ ls.access # 0
    THEN IF Parseable(ls.user)
           THEN /\ user' = Parse(ls.user)
                /\ tokens' = [access |-> ls.access, refresh |-> ls.refresh]
                /\ UNCHANGED <<ls, pendingAdmins>>
           ELSE ClearAuthData
    ELSE UNCHANGED <<user, tokens, ls, pendingAdmins>>

\* initAuth's body: restore from the three entries, all of them needed; a
\* principal entry that does not parse clears everything.
Restore ==
  IF ls.user # NoEntry /\ ls.access # 0 /\ ls.refresh # 0
    THEN IF Parseable(ls.user)
           THEN /\ user' = Parse(ls.user)
                /\ tokens' = [access |-> ls.access, refresh |-> ls.refresh]
                /\ UNCHANGED <<ls, pendingAdmins>>
           ELSE ClearAuthData
    ELSE UNCHANGED <<user, tokens, ls, pendingAdmins>>

\* initAuth, called on its own (application start-up, a component)
InitAuth ==
  /\ Quiet
  /\ Restore
  /\ ret' = Ret("initAuth", "resolved", "none")
  /\ UNCHANGED <<req, issued, redirected, nav>>

\* login
Login(r) ==
  /\ Quiet /\ FreeSlot(r)
  /\ Submit(r, "login", 0)
  /\ ret' = NoRet
  /\ UNCHANGED <<user, tokens, ls, issued, redirected, pendingAdmins, nav>>

\* (mutant: the principal entry is not written)
SetSession_tokensOnly(p, k) ==
  /\ user' = p
  /\ tokens' = [access |-> k, refresh |-> k]
  /\ ls' = SaveTokens(ls, k, k)

\* login, after a success response: the refs are set, then the three
\* entries are written.
SetSession(p, k) ==
  /\ user' = p
  /\ tokens' = [access |-> k, refresh |-> k]
  /\ ls' = [user |-> Stringify(p), access |-> k, refresh |-> k]

\* (mutant: a failed sign-in drops the session in memory)
OnLoginError_dropSession ==
  /\ user' = NoUser
  /\ tokens' = NoTokens
  /\ ls' = ls

\* login's catch block: error.value is set and the error is rethrown; user
\* and tokens are not assigned
OnLoginError == UNCHANGED <<user, tokens, ls>>

LoginDone(r) ==
  /\ Settled(r, "login")
  /\ IF req[r].outcome = "ok"
       THEN /\ SetSession(AllPrincipals[req[r].puser], req[r].data)
            /\ ret' = Ret("login", "resolved", req[r].outcome)
       ELSE /\ OnLoginError
            /\ ret' = Ret("login", "rejected", req[r].outcome)
  /\ req' = Release(r)
  /\ UNCHANGED <<issued, redirected, pendingAdmins, nav>>

\* refreshToken, without a refresh token in memory: throws before the try.
RefreshTokenNoToken ==
  /\ Quiet
  /\ tokens.refresh = 0
  /\ ret' = Ret("refresh", "NoRefreshToken", "none")
  /\ UNCHANGED <<user, tokens, ls, req, issued, redirected, pendingAdmins, nav>>

RefreshToken(r) ==
  /\ Quiet /\ FreeSlot(r)
  /\ tokens.refresh # 0
  /\ Submit(r, "refresh", tokens.refresh)
  /\ ret' = NoRet
  /\ UNCHANGED <<user, tokens, ls, issued, redirected, pendingAdmins, nav>>

\* (mutant: the new pair is kept in memory only)
ApplyRefresh_memoryOnly(k) ==
  /\ tokens' = [access |-> k, refresh |-> k]
  /\ UNCHANGED <<user, ls, pendingAdmins>>

\* refreshToken, after a success response: the new pair replaces the old one
\* in memory and in the two token entries.
ApplyRefresh(k) ==
  /\ tokens' = [access |-> k, refresh |-> k]
  /\ ls' = SaveTokens(ls, k, k)
  /\ UNCHANGED <<user, pendingAdmins>>

\* (mutant: the failure is rethrown without the cleanup)
OnRefreshError_rethrowOnly == UNCHANGED <<user, tokens, ls, pendingAdmins>>

\* refreshToken's catch block
OnRefreshError == ClearAuthData

RefreshTokenDone(r) ==
  /\ Settled(r, "refresh")
  /\ IF req[r].outcome = "ok"
       THEN /\ ApplyRefresh(req[r].data)
            /\ ret' = Ret("refresh", "resolved", req[r].outcome)
       ELSE /\ OnRefreshError
            /\ ret' = Ret("refresh", "rejected", req[r].outcome)
  /\ req' = Release(r)
  /\ UNCHANGED <<issued, redirected, nav>>

\* logout, without a refresh token in memory: no revocation call.
LogoutNoToken ==
  /\ Quiet
  /\ tokens.refresh = 0
  /\ ClearAuthData
  /\ ret' = Ret("logout", "resolved", "none")
  /\ UNCHANGED <<req, issued, redirected, nav>>

Logout(r) ==
  /\ Quiet /\ FreeSlot(r)
  /\ tokens.refresh # 0
  /\ Submit(r, "logout", tokens.refresh)
  /\ ret' = NoRet
  /\ UNCHANGED <<user, tokens, ls, issued, redirected, pendingAdmins, nav>>

\* logout, after the revocation call: its outcome is ignored.
LogoutDone(r) ==
  /\ Settled(r, "logout")
  /\ ClearAuthData
  /\ ret' = Ret("logout", "resolved", req[r].outcome)
  /\ req' = Release(r)
  /\ UNCHANGED <<issued, redirected, nav>>

\* ------------------------------------------------------------------ browser
\* The assignment to window.location.href loads /login: a new page, with the
\* store as constructed and no request in flight; localStorage survives.
PageReload ==
  /\ Quiet
  /\ redirected
  /\ user' = NoUser
  /\ tokens' = NoTokens
  /\ req' = [r \in ReqIds |-> IdleReq]
  /\ redirected' = FALSE
  /\ ret' = NoRet
  /\ pendingAdmins' = <<>>
  /\ nav' = NoNav
  /\ UNCHANGED <<ls, issued>>

\* ------------------------------------------------------- approval operations
\* String.prototype.trim on a string given as its characters
RECURSIVE TrimStart(_)
TrimStart(s) ==
  IF s # <<>> /\ Head(s) = " " THEN TrimStart(Tail(s)) ELSE s

RECURSIVE TrimEnd(_)
TrimEnd(s) ==
  IF s # <<>> /\ s[Len(s)] = " " THEN TrimEnd(SubSeq(s, 1, Len(s) - 1)) ELSE s

Trim(s) == TrimEnd(TrimStart(s))

\* the reasons a caller passes: empty, blank, and one with text
Reasons == {<<>>, <<" ">>, <<" ", "x", " ">>}

\* HttpClient.post / put of a decision on admin id
SubmitDecision(r, kind, id, reason) ==
  req' = [req EXCEPT ![r] =
            [IdleReq EXCEPT !.kind = kind, !.st = "sent", !.id = id,
                            !.reason = reason,
                            !.auth = AttachAuth(ls, 0), !.sends = 1]]

\* fetchPendingAdmins by a caller who may not approve: throws at once
FetchPendingAdminsDenied ==
  /\ Quiet
  /\ ~canApproveAdmins
  /\ ret' = Ret("fetchPending", "Unauthorized", "none")
  /\ UNCHANGED <<user, tokens, ls, req, issued, redirected, pendingAdmins, nav>>

FetchPendingAdmins(r) ==
  /\ Quiet /\ FreeSlot(r)
  /\ canApproveAdmins
  /\ Submit(r, "pending", 0)
  /\ ret' = NoRet
  /\ UNCHANGED <<user, tokens, ls, issued, redirected, pendingAdmins, nav>>

FetchPendingAdminsDone(r) ==
  /\ Settled(r, "pending")
  /\ IF req[r].outcome = "ok"
       THEN /\ pendingAdmins' = req[r].list
            /\ ret' = Ret("fetchPending", "resolved", req[r].outcome)
       ELSE /\ UNCHANGED pendingAdmins
            /\ ret' = Ret("fetchPending", "rejected", req[r].outcome)
  /\ req' = Release(r)
  /\ UNCHANGED <<user, tokens, ls, issued, redirected, nav>>

\* approveAdmin by a caller who may not approve
ApproveAdminDenied ==
  /\ Quiet
  /\ ~canApproveAdmins
  /\ ret' = Ret("approve", "Unauthorized", "none")
  /\ UNCHANGED <<user, tokens, ls, req, issued, redirected, pendingAdmins, nav>>

ApproveAdmin(r) ==
  /\ Quiet /\ FreeSlot(r)
  /\ canApproveAdmins
  /\ \E id \in AdminIds : SubmitDecision(r, "approve", id, <<>>)
  /\ ret' = NoRet
  /\ UNCHANGED <<user, tokens, ls, issued, redirected, pendingAdmins, nav>>

\* (mutant: the first entry is dropped, whatever its id)
RemoveDecided_first(list, id) == IF list = <<>> THEN list ELSE Tail(list)

\* pendingAdmins.value.filter(admin => admin.id !== adminId)
RemoveDecided(list, id) == SelectSeq(list, LAMBDA a : a # id)

ApproveAdminDone(r) ==
  /\ Settled(r, "approve")
  /\ IF req[r].outcome = "ok"
       THEN /\ pendingAdmins' = RemoveDecided(pendingAdmins, req[r].id)
            /\ ret' = Ret("approve", "resolved", req[r].outcome)
       ELSE /\ UNCHANGED pendingAdmins
            /\ ret' = Ret("approve", "rejected", req[r].outcome)
  /\ req' = Release(r)
  /\ UNCHANGED <<user, tokens, ls, issued, redirected, nav>>

\* rejectAdmin by a caller who may not approve, or with a blank reason
RejectAdminDenied ==
  /\ Quiet
  /\ \E reason \in Reasons :
       IF ~canApproveAdmins
         THEN ret' = Ret("reject", "Unauthorized", "none")
         ELSE /\ Trim(reason) = <<>>
              /\ ret' = Ret("reject", "Validation", "none")
  /\ UNCHANGED <<user, tokens, ls, req, issued, redirected, pendingAdmins, nav>>

RejectAdmin(r) ==
  /\ Quiet /\ FreeSlot(r)
  /\ canApproveAdmins
  /\ \E id \in AdminIds, reason \in Reasons :
       /\ Trim(reason) # <<>>
       /\ SubmitDecision(r, "reject", id, reason)
  /\ ret' = NoRet
  /\ UNCHANGED <<user, tokens, ls, issued, redirected, pendingAdmins, nav>>

RejectAdminDone(r) ==
  /\ Settled(r, "reject")
  /\ IF req[r].outcome = "ok"
       THEN /\ pendingAdmins' = RemoveDecided(pendingAdmins, req[r].id)
            /\ ret' = Ret("reject", "resolved", req[r].outcome)
       ELSE /\ UNCHANGED pendingAdmins
            /\ ret' = Ret("reject", "rejected", req[r].outcome)
  /\ req' = Release(r)
  /\ UNCHANGED <<user, tokens, ls, issued, redirected, nav>>

Next ==
  \/ \E r \in ReqIds : ApiCall(r)
  \/ \E r \in ReqIds : Respond401(r)
  \/ \E r \in ReqIds : RefreshOk(r)
  \/ \E r \in ReqIds : RefreshFail(r)
  \/ \E r \in ReqIds : Respond200(r)
  \/ \E r \in ReqIds : RespondError(r)
  \/ \E r \in ReqIds : ApiDone(r)
  \/ InitAuth
  \/ \E r \in ReqIds : Login(r)
  \/ \E r \in ReqIds : LoginDone(r)
  \/ RefreshTokenNoToken
  \/ \E r \in ReqIds : RefreshToken(r)
  \/ \E r \in ReqIds : RefreshTokenDone(r)
  \/ LogoutNoToken
  \/ \E r \in ReqIds : Logout(r)
  \/ \E r \in ReqIds : LogoutDone(r)
  \/ PageReload

Spec == Init /\ [][Next]_vars

\* ------------------------------------------------------------- route guards
Paths == {"/dashboard", "/admins"}

\* allowedRoles of superAdminGuard and of adminGuard
RoleSets == {{"SUPER_ADMIN"}, {"ADMIN", "SUPER_ADMIN"}}

\* the meta records of the routes metaGuard is evaluated for
Metas ==
  { [NoMeta EXCEPT !.requiresAuth = TRUE],
    [NoMeta EXCEPT !.requiresAuth = TRUE, !.requiresActive = TRUE,
                   !.hasRoles = TRUE, !.roles = {"ADMIN", "SUPER_ADMIN"}],
    [NoMeta EXCEPT !.requiresAuth = TRUE, !.requiresSuperAdmin = TRUE,
                   !.requiresApproval = TRUE],
    [NoMeta EXCEPT !.requiresActive = TRUE] }

\* hasTokens: both token entries are present
hasTokens == ls.access # 0 /\ ls.refresh # 0

\* accessToken && isTokenExpiringSoon(accessToken): false without an access
\* token entry; with one, it depends on the token's exp claim and the clock.
ExpiringSoon == IF ls.access # 0 THEN BOOLEAN ELSE {FALSE}

\* statusGuard, given isAuthenticated and the principal
StatusResult(auth, u, to) ==
  IF ~auth THEN LoginRedirect(to)
  ELSE IF u.status = "PENDING" THEN Go("PendingApproval")
  ELSE IF u.status = "REJECTED" THEN Go("ApplicationRejected")
  ELSE IF u.status = "INACTIVE" THEN Go("AccountInactive")
  ELSE IF u.status # "ACTIVE" THEN Go("AccountStatus")
  ELSE Allow

\* the guard createRoleGuard(allowedRoles) returns
RoleResult(auth, u, allowedRoles, to) ==
  IF ~auth THEN LoginRedirect(to)
  ELSE IF u.role = "NONE" \/ u.role \notin allowedRoles THEN Go("Forbidden")
  ELSE Allow

\* approvalGuard
ApprovalResult(auth, u, to) ==
  IF ~auth THEN LoginRedirect(to)
  ELSE IF ~(u.role = "SUPER_ADMIN" /\ u.status = "ACTIVE") THEN Go("Forbidden")
  ELSE Allow

\* metaGuard after its authentication block: status, roles, super admin,
\* approval
MetaRest(auth, u, m) ==
  IF m.requiresActive /\ auth /\ u.status # "ACTIVE"
    THEN IF u.status = "PENDING" THEN Go("PendingApproval")
         ELSE IF u.status = "REJECTED" THEN Go("ApplicationRejected")
         ELSE Go("AccountInactive")
  ELSE IF m.hasRoles /\ auth /\ (u.role = "NONE" \/ u.role \notin m.roles)
    THEN Go("Forbidden")
  ELSE IF m.requiresSuperAdmin /\ auth /\ u.role # "SUPER_ADMIN"
    THEN Go("Forbidden")
  ELSE IF m.requiresApproval /\ auth
            /\ ~(u.role = "SUPER_ADMIN" /\ u.status = "ACTIVE")
    THEN Go("Forbidden")
  ELSE Allow

\* (mutant: the chain goes on after a redirect, each redirect calls next)
ChainRest_noShortCircuit(ar, auth, u, allowedRoles, to) ==
  LET sr == StatusResult(auth, u, to)
      rr == RoleResult(auth, u, allowedRoles, to)
  IN  [result |-> rr,
       trail |-> << [pred |-> "auth", result |-> ar],
                    [pred |-> "status", result |-> sr],
                    [pred |-> "role", result |-> rr] >>,
       calls |-> 1 + (IF ar # Allow THEN 1 ELSE 0)
                   + (IF sr # Allow THEN 1 ELSE 0)]

\* authStatusAndRoleGuard from the moment authGuard calls its callback with
\* ar: a redirect is passed to next and the promise is never resolved;
\* otherwise statusGuard runs the same way, then the role guard gets next.
ChainRest(ar, auth, u, allowedRoles, to) ==
  LET sr == StatusResult(auth, u, to)
      rr == RoleResult(auth, u, allowedRoles, to)
  IN  IF ar # Allow
        THEN [result |-> ar, trail |-> << [pred |-> "auth", result |-> ar] >>,
              calls |-> 1]
      ELSE IF sr # Allow
        THEN [result |-> sr,
              trail |-> << [pred |-> "auth", result |-> ar],
                           [pred |-> "status", result |-> sr] >>,
              calls |-> 1]
      ELSE [result |-> rr,
            trail |-> << [pred |-> "auth", result |-> ar],
                         [pred |-> "status", result |-> sr],
                         [pred |-> "role", result |-> rr] >>,
            calls |-> 1]

\* The callback authGuard is given, called with ar: vue-router's next, or
\* the wrapper of the combined guard.
CallNext(base, ar, auth, u) ==
  IF base.guard = "chain"
    THEN LET c == ChainRest(ar, auth, u, base.roles, base.to)
         IN  [base EXCEPT !.pc = "done", !.req = 0, !.result = c.result,
                          !.trail = c.trail, !.calls = c.calls,
                          !.authAtNext = auth]
    ELSE [base EXCEPT !.pc = "done", !.req = 0, !.result = ar, !.calls = 1,
                      !.authAtNext = auth]

\* authGuard up to its first await or its call of next; g tells who called
\* it: the router ("auth") or the combined guard ("chain").
AuthGuardCall(g, allowedRoles, to) ==
  /\ Quiet /\ nav.pc # "await"
  /\ \E soon \in ExpiringSoon :
       LET base == [NoNav EXCEPT !.guard = g, !.roles = allowedRoles, !.to = to]
       IN
       IF isAuthenticated
         THEN /\ nav' = CallNext([base EXCEPT !.authed = TRUE, !.soon = soon],
                                 Allow, isAuthenticated, user)
              /\ UNCHANGED <<user, tokens, ls, pendingAdmins, req>>
       ELSE IF hasTokens
         THEN /\ Restore
              /\ IF isAuthenticated'
                   THEN IF soon
                     THEN \E r \in ReqIds :
                            /\ FreeSlot(r)
                            /\ Submit(r, "refresh", tokens'.refresh)
                            /\ nav' = [base EXCEPT !.pc = "await", !.req = r,
                                         !.authed = TRUE, !.soon = TRUE,
                                         !.refresh = "pending"]
                     ELSE /\ nav' = CallNext([base EXCEPT !.authed = TRUE],
                                             Allow, TRUE, user')
                          /\ UNCHANGED req
                   ELSE /\ ~soon
                        /\ nav' = CallNext(base, LoginRedirect(to), FALSE, user')
                        /\ UNCHANGED req
       ELSE /\ ~soon
            /\ nav' = CallNext(base, LoginRedirect(to), FALSE, user)
            /\ UNCHANGED <<user, tokens, ls, pendingAdmins, req>>
  /\ ret' = NoRet
  /\ UNCHANGED <<issued, redirected>>

AuthGuard(to) == AuthGuardCall("auth", {}, to)

AuthStatusAndRoleGuard(allowedRoles, to) == AuthGuardCall("chain", allowedRoles, to)

\* authGuard continues after await authStore.refreshToken(): next() if it
\* resolved, the sign-in redirect if it threw.
AuthGuardResume ==
  /\ NavResuming /\ nav.guard \in {"auth", "chain"}
  /\ nav' = IF ret.res = "resolved"
              THEN CallNext([nav EXCEPT !.refresh = "ok"], Allow,
                            isAuthenticated, user)
              ELSE CallNext([nav EXCEPT !.refresh = "failed"],
                            LoginRedirect(nav.to), isAuthenticated, user)
  /\ ret' = NoRet
  /\ UNCHANGED <<user, tokens, ls, req, issued, redirected, pendingAdmins>>

\* metaGuard calls next after its checks that follow the authentication block
MetaDone(base, auth, u) ==
  [base EXCEPT !.pc = "done", !.req = 0, !.result = MetaRest(auth, u, base.meta),
               !.calls = 1, !.authAtNext = auth]

\* metaGuard calls next with the sign-in redirect
MetaToLogin(base, auth) ==
  [base EXCEPT !.pc = "done", !.req = 0, !.result = LoginRedirect(base.to),
               !.calls = 1, !.authAtNext = auth]

\* metaGuard up to its first await or its call of next
MetaGuard(m, to) ==
  /\ Quiet /\ nav.pc # "await"
  /\ \E soon \in ExpiringSoon :
       LET base == [NoNav EXCEPT !.guard = "meta", !.meta = m, !.to = to]
       IN
       IF m.requiresAuth /\ ~isAuthenticated
         THEN IF hasTokens
           THEN /\ Restore
                /\ IF isAuthenticated'
                     THEN IF soon
                       THEN \E r \in ReqIds :
                              /\ FreeSlot(r)
                              /\ Submit(r, "refresh", tokens'.refresh)
                              /\ nav' = [base EXCEPT !.pc = "await", !.req = r,
                                           !.authed = TRUE, !.soon = TRUE,
                                           !.refresh = "pending"]
                       ELSE /\ nav' = MetaDone([base EXCEPT !.authed = TRUE],
                                               TRUE, user')
                            /\ UNCHANGED req
                     ELSE /\ ~soon
                          /\ nav' = MetaToLogin(base, FALSE)
                          /\ UNCHANGED req
           ELSE /\ ~soon
                /\ nav' = MetaToLogin(base, FALSE)
                /\ UNCHANGED <<user, tokens, ls, pendingAdmins, req>>
       ELSE /\ soon => isAuthenticated
            /\ nav' = MetaDone([base EXCEPT !.authed = isAuthenticated,
                                            !.soon = soon],
                               isAuthenticated, user)
            /\ UNCHANGED <<user, tokens, ls, pendingAdmins, req>>
  /\ ret' = NoRet
  /\ UNCHANGED <<issued, redirected>>

\* metaGuard continues after await authStore.refreshToken()
MetaGuardResume ==
  /\ NavResuming /\ nav.guard = "meta"
  /\ nav' = IF ret.res = "resolved"
              THEN MetaDone([nav EXCEPT !.refresh = "ok"], isAuthenticated, user)
              ELSE MetaToLogin([nav EXCEPT !.refresh = "failed"], isAuthenticated)
  /\ ret' = NoRet
  /\ UNCHANGED <<user, tokens, ls, req, issued, redirected, pendingAdmins>>

\* A guard that decides at once: it reads the session and calls next.
Decide(g, allowedRoles, to, result) ==
  /\ Quiet /\ nav.pc # "await"
  /\ nav' = [NoNav EXCEPT !.guard = g, !.pc = "done", !.roles = allowedRoles,
                          !.to = to, !.authed = isAuthenticated,
                          !.result = result, !.calls = 1,
                          !.authAtNext = isAuthenticated]
  /\ ret' = NoRet
  /\ UNCHANGED <<user, tokens, ls, req, issued, redirected, pendingAdmins>>

StatusGuard(to) ==
  Decide("status", {}, to, StatusResult(isAuthenticated, user, to))

RoleGuard(allowedRoles, to) ==
  Decide("role", allowedRoles, to,
         RoleResult(isAuthenticated, user, allowedRoles, to))

ApprovalGuard(to) ==
  Decide("approval", {}, to, ApprovalResult(isAuthenticated, user, to))

\* A page load with whatever an earlier page left in localStorage: any of the
\* three entries may be missing, the principal entry may be one that does not
\* parse, and the principal may have any role and status.
InitGuard ==
  /\ user = NoUser
  /\ tokens = NoTokens
  /\ \E u \in {Stringify(AllPrincipals[i]) : i \in 1..Len(AllPrincipals)}
               \cup {NoEntry, Corrupt},
        a \in {0, 1}, r \in {0, 1} :
        ls = [user |-> u, access |-> a, refresh |-> r]
  /\ issued = 1
  /\ req = [r \in ReqIds |-> IdleReq]
  /\ redirected = FALSE
  /\ ret = NoRet
  /\ pendingAdmins = <<>>
  /\ nav = NoNav

\* The guards, with restore, sign-out and the pipeline around them.
NextGuard ==
  \/ \E to \in Paths : AuthGuard(to)
  \/ \E roles \in RoleSets, to \in Paths : AuthStatusAndRoleGuard(roles, to)
  \/ AuthGuardResume
  \/ \E m \in Metas, to \in Paths : MetaGuard(m, to)
  \/ MetaGuardResume
  \/ \E to \in Paths : StatusGuard(to)
  \/ \E roles \in RoleSets, to \in Paths : RoleGuard(roles, to)
  \/ \E to \in Paths : ApprovalGuard(to)
  \/ InitAuth
  \/ \E r \in ReqIds : RefreshTokenDone(r)
  \/ LogoutNoToken
  \/ \E r \in ReqIds : Logout(r)
  \/ \E r \in ReqIds : LogoutDone(r)
  \/ \E r \in ReqIds : Respond401(r)
  \/ \E r \in ReqIds : RefreshOk(r)
  \/ \E r \in ReqIds : RefreshFail(r)
  \/ \E r \in ReqIds : Respond200(r)
  \/ \E r \in ReqIds : RespondError(r)
  \/ PageReload

SpecGuard == InitGuard /\ [][NextGuard]_vars

\* The approval operations, with sign-in, sign-out, restore and the pipeline
\* around them.
NextApproval ==
  \/ \E r \in ReqIds : Respond401(r)
  \/ \E r \in ReqIds : RefreshOk(r)
  \/ \E r \in ReqIds : RefreshFail(r)
  \/ \E r \in ReqIds : Respond200(r)
  \/ \E r \in ReqIds : RespondError(r)
  \/ InitAuth
  \/ \E r \in ReqIds : Login(r)
  \/ \E r \in ReqIds : LoginDone(r)
  \/ LogoutNoToken
  \/ \E r \in ReqIds : Logout(r)
  \/ \E r \in ReqIds : LogoutDone(r)
  \/ PageReload
  \/ FetchPendingAdminsDenied
  \/ \E r \in ReqIds : FetchPendingAdmins(r)
  \/ \E r \in ReqIds : FetchPendingAdminsDone(r)
  \/ ApproveAdminDenied
  \/ \E r \in ReqIds : ApproveAdmin(r)
  \/ \E r \in ReqIds : ApproveAdminDone(r)
  \/ RejectAdminDenied
  \/ \E r \in ReqIds : RejectAdmin(r)
  \/ \E r \in ReqIds : RejectAdminDone(r)

SpecApproval == Init /\ [][NextApproval]_vars

\* ------------------------------------------------------------ store round trip
\* getTokens: the pair read back from the two token entries, or null
GetTokens(store) ==
  IF store.access = 0 \/ store.refresh = 0
    THEN NoTokens
    ELSE [access |-> store.access, refresh |-> store.refresh]

\* login's three setItem calls, for the session login has put in memory
PersistSession ==
  /\ Quiet
  /\ isAuthenticated
  /\ ls' = [user |-> Stringify(user), access |-> tokens.access,
            refresh |-> tokens.refresh]
  /\ ret' = Ret("persist", "session", "none")
  /\ UNCHANGED <<user, tokens, req, issued, redirected, pendingAdmins, nav>>

\* saveTokens(tokens), for the pair in memory
SaveTokensCall ==
  /\ Quiet
  /\ tokens # NoTokens
  /\ ls' = SaveTokens(ls, tokens.access, tokens.refresh)
  /\ ret' = Ret("persist", "tokens", "none")
  /\ UNCHANGED <<user, tokens, req, issued, redirected, pendingAdmins, nav>>

\* getTokens()
GetTokensCall ==
  /\ Quiet
  /\ ret' = Ret("getTokens", GetTokens(ls), "none")
  /\ UNCHANGED <<user, tokens, ls, req, issued, redirected, pendingAdmins, nav>>

\* Any principal and any pair, as login assigns them to user and tokens from
\* a success response, over a store that is empty or holds what an earlier
\* page left.
InitRoundTrip ==
  /\ \E i \in 1..Len(AllPrincipals), a \in 1..MaxTok, r \in 1..MaxTok :
       /\ user = AllPrincipals[i]
       /\ tokens = [access |-> a, refresh |-> r]
  /\ ls \in {EmptyStore, [user |-> Corrupt, access |-> MaxTok, refresh |-> MaxTok]}
  /\ issued = MaxTok
  /\ req = [r \in ReqIds |-> IdleReq]
  /\ redirected = FALSE
  /\ ret = NoRet
  /\ pendingAdmins = <<>>
  /\ nav = NoNav

NextRoundTrip ==
  \/ PersistSession
  \/ SaveTokensCall
  \/ GetTokensCall
  \/ InitAuth

SpecRoundTrip == InitRoundTrip /\ [][NextRoundTrip]_vars

\* --------------------------------------------------------------- token decode
\* A JSON value: its type, a number (the number itself, the length of a
\* string or an array, 0 / 1 for false / true) and, for an object, its exp
\* member (<<>>: no such member).
JsonValue(type, n, exp) == [type |-> type, n |-> n, exp |-> exp]

JNull == JsonValue("null", 0, <<>>)

\* the outcome of an expression that threw
Throws == JsonValue("throws", 0, <<>>)

\* the exp claims of the tokens examined (seconds)
Exps == {0, 1299, 1300, 2000}

\* the readings of Date.now() (milliseconds)
Nows == {1000000, 1000001, 1700000}

JsonValues ==
  {JNull}
    \cup {JsonValue("number", n, <<>>) : n \in {0, 123}}
    \cup {JsonValue("string", n, <<>>) : n \in {0, 3}}
    \cup {JsonValue("boolean", n, <<>>) : n \in {0, 1}}
    \cup {JsonValue("array", 1, <<>>)}
    \cup {JsonValue("object", 0, <<>>)}
    \cup {JsonValue("object", 0, <<e>>) : e \in Exps}

\* A segment of a token, by what decoding it does: atob throws on it
\* (badBase64), decodeURIComponent throws on its bytes (badUtf8), or it is the
\* encoding of a text, which is a JSON text of some value or is not one (the
\* empty segment is the empty text, not a JSON text).
Segments ==
  {[enc |-> e, valid |-> FALSE, value |-> JNull] :
     e \in {"badBase64", "badUtf8", "text"}}
    \cup {[enc |-> "text", valid |-> TRUE, value |-> v] : v \in JsonValues}

\* A token string, as token.split('.') sees it: at least one segment; the
\* payload is the second, the others are not looked at.
Tokens ==
  {<<[enc |-> "text", valid |-> FALSE, value |-> JNull]>>}
    \cup UNION {{[i \in 1..n |-> IF i = 2 THEN s
                                ELSE [enc |-> "text", valid |-> TRUE,
                                      value |-> JsonValue("object", 0, <<>>)]] :
                  s \in Segments} : n \in 2..MaxSegs}

\* JavaScript truthiness of a JSON value
Truthy(v) ==
  CASE v.type \in {"null", "throws"} -> FALSE
    [] v.type \in {"number", "string", "boolean"} -> v.n # 0
    [] OTHER -> TRUE

\* the try block of parseJwtPayload: split, [1], replace, atob,
\* decodeURIComponent, JSON.parse
Decoded(token) ==
  IF Len(token) < 2 THEN Throws
  ELSE IF token[2].enc # "text" THEN Throws
  ELSE IF ~token[2].valid THEN Throws
  ELSE token[2].value

\* parseJwtPayload: what the try block gives, null if it threw
parseJwtPayload(token) ==
  IF Decoded(token) = Throws THEN JNull ELSE Decoded(token)

minutesThreshold == 5

\* isTokenExpiringSoon
isTokenExpiringSoon(token, now) ==
  LET payload == parseJwtPayload(token)
  IN  IF ~Truthy(payload) \/ payload.exp = <<>> \/ payload.exp = <<0>>
        THEN TRUE
        ELSE payload.exp[1] * 1000 - now < minutesThreshold * 60 * 1000

ParseJwtPayloadCall ==
  /\ Quiet
  /\ \E token \in Tokens :
       ret' = Ret("parseJwtPayload", parseJwtPayload(token), token)
  /\ UNCHANGED <<user, tokens, ls, req, issued, redirected, pendingAdmins, nav>>

IsTokenExpiringSoonCall ==
  /\ Quiet
  /\ \E token \in Tokens, now \in Nows :
       ret' = Ret("isTokenExpiringSoon", isTokenExpiringSoon(token, now),
                  [token |-> token, now |-> now])
  /\ UNCHANGED <<user, tokens, ls, req, issued, redirected, pendingAdmins, nav>>

InitToken ==
  /\ user = NoUser
  /\ tokens = NoTokens
  /\ ls = EmptyStore
  /\ issued = 0
  /\ req = [r \in ReqIds |-> IdleReq]
  /\ redirected = FALSE
  /\ ret = NoRet
  /\ pendingAdmins = <<>>
  /\ nav = NoNav

NextToken ==
  \/ ParseJwtPayloadCall
  \/ IsTokenExpiringSoonCall

SpecToken == InitToken /\ [][NextToken]_vars

\* ==================================================================== claims

\* C1 (as claimed): single-flight refresh: at no time are two refresh calls
\* of the pipeline outstanding; a request that gets a 401 while a refresh is
\* in flight waits for that refresh instead of starting its own.
C1_SingleFlight == Cardinality(Refreshing) <= 1

\* C2 (as claimed): uniform outcome: of two requests that got their 401 with
\* no refresh completed in between (each was waiting on a refresh while the
\* other was), it never happens that one is retried with a newly issued token
\* while the other is rejected with the refresh failure.
C2_UniformOutcome ==
  \A r1, r2 \in ReqIds :
    r2 \in req[r1].peers =>
      ~(req[r1].got # 0 /\ req[r2].outcome = "refreshErr")

\* C3: loop prevention: a request is submitted at most twice and starts at most
\* one refresh; a request already marked as retried never starts a refresh, and
\* the step that settles it (its second 401 included) hands its own outcome to
\* the caller, never a refresh failure, and leaves the store, the refresh calls
\* in flight and the redirect flag as they were.
C3_LoopPrevention ==
  [][\A r \in ReqIds :
       /\ req'[r].sends <= 2
       /\ req'[r].refreshes <= 1
       /\ (req[r].st = "sent" /\ req[r].retry) => req'[r].st # "refreshing"
       /\ (req[r].st = "sent" /\ req[r].retry /\ req'[r].st = "settled") =>
            /\ req'[r].outcome \in {"ok", "err401", "errOther"}
            /\ req'[r].refreshes = req[r].refreshes
            /\ Refreshing' = Refreshing
            /\ ls' = ls
            /\ redirected' = redirected]_vars

C3_Witness ==
  \E r \in ReqIds :
    /\ req[r].st = "settled" /\ req[r].outcome = "err401"
    /\ req[r].sends = 2 /\ req[r].refreshes = 1
    /\ ~StoreCleared

\* C4: pipeline refresh success: the refresh call carries the refresh token the
\* store holds when the 401 arrives; when it returns a new pair, the request is
\* submitted a second time with the new access token as its Authorization, and
\* the store's two token entries are the new pair (the principal entry is not
\* touched).
C4_PipelineRefreshSuccess ==
  [][\A r \in ReqIds :
       /\ (req[r].st = "sent" /\ req'[r].st = "refreshing") =>
            req'[r].rbody = ls.refresh /\ ls.refresh # 0
       /\ (req[r].st = "refreshing" /\ req'[r].st = "sent") =>
            /\ req'[r].got = issued' /\ issued' = issued + 1
            /\ req'[r].auth = req'[r].got
            /\ req'[r].sends = 2
            /\ ls'.access = req'[r].got
            /\ ls'.refresh = req'[r].got
            /\ ls'.access # ls.access
            /\ ls'.refresh # req[r].rbody
            /\ ls'.user = ls.user]_vars

C4_Witness ==
  \E r \in ReqIds :
    /\ req[r].st = "sent" /\ req[r].sends = 2
    /\ req[r].rbody = 1 /\ req[r].got = 2 /\ req[r].auth = 2
    /\ ls.access = 2 /\ ls.refresh = 2

\* C5 (as claimed): pipeline refresh failure: in the step in which the
\* interceptor rejects a request with the refresh failure, the in-memory session
\* and the store are cleared (isAuthenticated false, the three entries
\* absent), the client is redirected to sign-in, and no revocation call is made.
C5_PipelineRefreshFailure ==
  [][\A r \in ReqIds :
       (req[r].st \in {"sent", "refreshing"} /\ req'[r].st = "settled"
          /\ req'[r].outcome = "refreshErr") =>
         /\ ~isAuthenticated'
         /\ StoreCleared'
         /\ redirected'
         /\ \A q \in ReqIds : req'[q].kind = "logout" => req[q].kind = "logout"]_vars

\* C6 (as claimed): the in-memory principal and the in-memory credential pair
\* are both present or both absent, in every reachable state.
C6_SessionNeverMixed == (user = NoUser) <=> (tokens = NoTokens)

\* C7: sign-out is unconditional: whenever logout returns, it has resolved
\* (never rejected), isAuthenticated is false and the three entries are absent,
\* whatever became of the revocation call.
C7_SignOutUnconditional ==
  ret.op = "logout" =>
    /\ ret.res = "resolved"
    /\ ~isAuthenticated /\ user = NoUser /\ tokens = NoTokens
    /\ StoreCleared

C7_Witness ==
  /\ ret.op = "logout" /\ ret.via \in {"errOther", "err401", "refreshErr"}
  /\ ~isAuthenticated /\ StoreCleared

\* C8: refresh() failure tears the session down: whenever refreshToken returns
\* rejected because its refresh call failed, the in-memory session is empty and
\* the three entries are absent.
C8_RefreshFailureTeardown ==
  (ret.op = "refresh" /\ ret.via \in {"errOther", "err401", "refreshErr"}) =>
    /\ ret.res = "rejected"
    /\ user = NoUser /\ tokens = NoTokens
    /\ StoreCleared

C8_Witness ==
  /\ ret = Ret("refresh", "rejected", "errOther")
  /\ user = NoUser /\ tokens = NoTokens /\ StoreCleared

\* C9 (as claimed): refresh() without a refresh token in the session fails with
\* NoRefreshToken and leaves the state Anonymous and the store cleared,
\* whatever the store held before.
C9_NoRefreshTokenTeardown ==
  (ret.op = "refresh" /\ ret.res = "NoRefreshToken") =>
    ~isAuthenticated /\ StoreCleared

\* C10: refresh() success: in the step in which refreshToken continues after a
\* success response with a new pair, the in-memory pair and the two token
\* entries become that pair, the principal is unchanged in memory and in the
\* store, and an Authenticated session stays Authenticated.
C10_RefreshSuccess ==
  [][\A r \in ReqIds :
       (Settled(r, "refresh") /\ req[r].outcome = "ok" /\ req'[r].st = "idle") =>
         /\ ret' = Ret("refresh", "resolved", "ok")
         /\ tokens' = [access |-> req[r].data, refresh |-> req[r].data]
         /\ tokens' # tokens
         /\ ls'.access = req[r].data /\ ls'.refresh = req[r].data
         /\ user' = user
         /\ ls'.user = ls.user
         /\ (isAuthenticated => isAuthenticated')]_vars

C10_Witness ==
  /\ ret = Ret("refresh", "resolved", "ok")
  /\ isAuthenticated
  /\ tokens.access > 1 /\ tokens.refresh = tokens.access
  /\ ls.access = tokens.access /\ ls.refresh = tokens.refresh
  /\ ls.user = Stringify(user)

\* C11: Failed sign-in leaves the session unchanged.  In every step in which
\* login returns after its credential-issuing call failed, login rejects and
\* the principal and the credential pair in memory are what they were before
\* the step (an anonymous session stays anonymous, an existing one stays).
C11_FailedSignInUnchanged ==
  [][\A r \in ReqIds :
       (Settled(r, "login") /\ req[r].outcome # "ok" /\ ret'.op = "login")
         => /\ ret'.res = "rejected"
            /\ user' = user
            /\ tokens' = tokens]_vars

\* a sign-in has failed while a session existed
C11_Witness ==
  /\ ret.op = "login" /\ ret.res = "rejected"
  /\ isAuthenticated

\* C12: Successful sign-in establishes a complete session.  In every step in
\* which login returns after a success response carrying (principal, pair),
\* the three entries of the store and the refs equal the returned values,
\* isAuthenticated is true, and canApproveAdmins is true exactly when the
\* returned principal is SUPER_ADMIN and ACTIVE.
C12_SignInCompleteSession ==
  [][\A r \in ReqIds :
       (Settled(r, "login") /\ req[r].outcome = "ok" /\ ret'.op = "login")
         => LET p == AllPrincipals[req[r].puser]
                k == req[r].data
            IN  /\ ret'.res = "resolved"
                /\ user' = p
                /\ tokens' = [access |-> k, refresh |-> k]
                /\ ls'.access = k /\ ls'.refresh = k
                /\ ls'.user # NoEntry /\ Parseable(ls'.user)
                /\ Parse(ls'.user) = p
                /\ isAuthenticated'
                /\ canApproveAdmins'
                     <=> (p.role = "SUPER_ADMIN" /\ p.status = "ACTIVE")]_vars

\* a sign-in has succeeded for a principal that may not approve
C12_Witness ==
  /\ ret.op = "login" /\ ret.res = "resolved"
  /\ isAuthenticated
  /\ ~canApproveAdmins

\* C14: restore is a no-op on an Authenticated session.  In every step in
\* which initAuth runs while the session is Authenticated, the principal and
\* the credential pair in memory are left as they were, whatever the store
\* holds.
C14_RestoreNoOpWhenAuthenticated ==
  [][(isAuthenticated /\ ret'.op = "initAuth")
       => (user' = user /\ tokens' = tokens)]_vars

\* C15: Approval operations are gated locally.  A request to the pending,
\* approve or reject endpoint is created only in a step taken while the
\* principal in memory is SUPER_ADMIN and ACTIVE (and, for reject, with a
\* reason that is not blank); a call that is refused returns Unauthorized, or
\* a validation failure for a blank reason, in a step that creates no request
\* and leaves the pending list as it was.
C15_ApprovalGatedLocally ==
  [][/\ \A r \in ReqIds :
          (req[r].st = "idle" /\ req'[r].kind \in {"pending", "approve", "reject"})
            => /\ user.role = "SUPER_ADMIN" /\ user.status = "ACTIVE"
               /\ req'[r].kind = "reject" => Trim(req'[r].reason) # <<>>
     /\ (ret'.op \in {"fetchPending", "approve", "reject"} /\ ret'.via = "none")
          => /\ ret'.res \in {"Unauthorized", "Validation"}
             /\ ret'.res = "Unauthorized"
                  => ~(user.role = "SUPER_ADMIN" /\ user.status = "ACTIVE")
             /\ ret'.res = "Validation" => ret'.op = "reject"
             /\ req' = req
             /\ pendingAdmins' = pendingAdmins]_vars

\* a signed-in admin who is not an active super admin was refused, with
\* entries in the pending list
C15_Witness ==
  /\ ret.op = "approve" /\ ret.res = "Unauthorized"
  /\ isAuthenticated
  /\ pendingAdmins # <<>>

\* C16: Effect of a decision on the pending list.  In every step in which
\* approveAdmin or rejectAdmin returns: after a success response the pending
\* list is the old one without the entries of the decided id, every other
\* entry kept in its place; after a failure the list is unchanged.
C16_DecideEffect ==
  [][\A r \in ReqIds :
       (req[r].st = "settled" /\ req[r].kind \in {"approve", "reject"}
          /\ ret'.op = req[r].kind)
         => IF req[r].outcome = "ok"
              THEN /\ ret'.res = "resolved"
                   /\ \A i \in 1..Len(pendingAdmins') :
                        pendingAdmins'[i] # req[r].id
                   /\ Len(pendingAdmins') =
                        Cardinality({i \in 1..Len(pendingAdmins) :
                                       pendingAdmins[i] # req[r].id})
                   /\ \A i, j \in 1..Len(pendingAdmins) :
                        (i < j /\ pendingAdmins[i] # req[r].id
                               /\ pendingAdmins[j] # req[r].id)
                          => \E m, n \in 1..Len(pendingAdmins') :
                               /\ m < n
                               /\ pendingAdmins'[m] = pendingAdmins[i]
                               /\ pendingAdmins'[n] = pendingAdmins[j]
                   /\ \A i \in 1..Len(pendingAdmins) :
                        pendingAdmins[i] # req[r].id
                          => \E m \in 1..Len(pendingAdmins') :
                               pendingAdmins'[m] = pendingAdmins[i]
              ELSE /\ ret'.res = "rejected"
                   /\ pendingAdmins' = pendingAdmins]_vars

\* a decision has succeeded and an entry is still pending
C16_Witness ==
  /\ ret.op \in {"approve", "reject"} /\ ret.res = "resolved"
  /\ Len(pendingAdmins) = 1

\* C13: A partial store never authenticates.  From a session that is not
\* authenticated and a store that lacks at least one of the three entries,
\* initAuth leaves the session not authenticated, and an evaluation of
\* authGuard ends at once with the sign-in redirect, the session still not
\* authenticated.
C13_PartialStoreNeverAuthenticates ==
  [][(/\ ~isAuthenticated
      /\ ls.user = NoEntry \/ ls.access = 0 \/ ls.refresh = 0)
       => /\ ret'.op = "initAuth" => ~isAuthenticated'
          /\ (nav.pc # "await" /\ nav' # nav /\ nav'.guard = "auth")
               => /\ nav'.pc = "done"
                  /\ nav'.calls = 1
                  /\ nav'.result = LoginRedirect(nav'.to)
                  /\ ~isAuthenticated']_vars

\* authGuard has redirected to sign-in over a store holding the principal and
\* the access token but no refresh token
C13_Witness ==
  /\ nav.guard = "auth" /\ nav.pc = "done"
  /\ nav.result = LoginRedirect(nav.to)
  /\ ~isAuthenticated
  /\ ls.user # NoEntry /\ ls.access # 0 /\ ls.refresh = 0

\* C17: The auth predicate refreshes an expiring token.  Whenever authGuard,
\* or metaGuard on a route that requires auth, has finished an evaluation that
\* found the session Authenticated (in memory or restored) with an access
\* token expiring soon, it has attempted refreshToken, and it has redirected
\* to sign-in if that attempt failed.
C17_RefreshesExpiringToken ==
  (/\ nav.pc = "done"
   /\ nav.guard = "auth" \/ (nav.guard = "meta" /\ nav.meta.requiresAuth)
   /\ nav.authed /\ nav.soon)
    => /\ nav.refresh \in {"ok", "failed"}
       /\ nav.refresh = "failed" => nav.result = LoginRedirect(nav.to)

\* C18: The auth predicate allows only authenticated sessions.  Whenever
\* authGuard, or metaGuard on a route that requires auth, has allowed a
\* navigation, isAuthenticated was true at the moment it called next.
C18_AllowsOnlyAuthenticated ==
  (/\ nav.pc = "done"
   /\ nav.guard = "auth" \/ (nav.guard = "meta" /\ nav.meta.requiresAuth)
   /\ nav.result = Allow)
    => nav.authAtNext

\* C19: Status predicate destinations.  In every step in which statusGuard,
\* or metaGuard on a route that requires an active account, decides for an
\* authenticated principal: ACTIVE is allowed by statusGuard, and both guards
\* send PENDING to the pending-approval page, REJECTED to the rejected page,
\* and INACTIVE and every other status to the inactive page.
C19_StatusDestinations ==
  [][LET dest == IF user'.status = "ACTIVE" THEN Allow
                 ELSE IF user'.status = "PENDING" THEN Go("PendingApproval")
                 ELSE IF user'.status = "REJECTED" THEN Go("ApplicationRejected")
                 ELSE Go("AccountInactive")
     IN  (nav' # nav /\ nav'.pc = "done" /\ isAuthenticated')
           => /\ nav'.guard = "status" => nav'.result = dest
              /\ (nav'.guard = "meta" /\ nav'.meta.requiresActive
                     /\ user'.status # "ACTIVE")
                   => nav'.result = dest]_vars

\* C20: The guard chain is sequential, first redirect wins.  While the
\* combined guard is suspended, next has not been called; when it has
\* finished, the predicates evaluated are a prefix of auth, status, role in
\* that order, every one but the last allowed, the result passed to next is
\* the last one's, a predicate that redirected is the last, and next was
\* called exactly once.
C20_ChainFirstRedirectWins ==
  nav.guard = "chain"
    => /\ nav.pc = "await" => (nav.calls = 0 /\ nav.trail = <<>>)
       /\ nav.pc = "done"
            => /\ nav.calls = 1
               /\ Len(nav.trail) \in 1..3
               /\ \A i \in 1..Len(nav.trail) :
                    /\ nav.trail[i].pred = <<"auth", "status", "role">>[i]
                    /\ i < Len(nav.trail) => nav.trail[i].result = Allow
               /\ nav.result = nav.trail[Len(nav.trail)].result
               /\ Len(nav.trail) < 3 => nav.result # Allow

\* the chain has stopped at the status predicate, after an awaited refresh in
\* the auth predicate
C20_Witness ==
  /\ nav.guard = "chain" /\ nav.pc = "done"
  /\ nav.refresh = "ok"
  /\ Len(nav.trail) = 2
  /\ nav.result = Go("PendingApproval")

\* C24: Memory/store agreement.  In every state in which no operation is
\* suspended at a network call, the page is not being replaced by the sign-in
\* page, and the session is Authenticated, the access and refresh tokens in
\* memory equal the two token entries of the store.
C24_MemoryStoreAgreement ==
  (/\ \A r \in ReqIds : req[r].st = "idle"
   /\ nav.pc # "await"
   /\ ~redirected
   /\ isAuthenticated)
    => (tokens.access = ls.access /\ tokens.refresh = ls.refresh)

\* C25: Sign-out is final for in-flight work.  From the state logout leaves
\* when it completes (nothing in memory, no entry in the store), a step that
\* is not the completion of a successful login leaves the memory and the
\* store empty, also when it is the completion of a refresh started earlier.
C25_SignOutFinal ==
  [][(/\ ret.op = "logout"
      /\ user = NoUser /\ tokens = NoTokens /\ ls = EmptyStore
      /\ ~(ret'.op = "login" /\ ret'.res = "resolved"))
       => (user' = NoUser /\ tokens' = NoTokens /\ ls' = EmptyStore)]_vars

\* C26: A refresh outcome applies only to the session that started it.  When
\* a login has just established a session and a refresh call of the pipeline,
\* started with another session's refresh token, is still in flight, the
\* completion of that call changes neither the session in memory nor the
\* three entries, and does not send the browser to sign-in.
C26_RefreshOnlyOwnSession ==
  [][\A r \in ReqIds :
       (/\ ret.op = "login" /\ ret.res = "resolved"
        /\ req[r].st = "refreshing" /\ req[r].rbody # ls.refresh
        /\ req'[r].st \in {"sent", "settled"})
         => /\ user' = user /\ tokens' = tokens
            /\ ls' = ls
            /\ redirected' = redirected]_vars

\* C27: A failed sign-in leaves the store unchanged.  In the step in which
\* the response to a login request arrives, no refresh call is started for
\* it, the three entries are what they were and the browser is not sent to
\* sign-in.
C27_FailedSignInStoreUnchanged ==
  [][\A r \in ReqIds :
       (/\ req[r].kind = "login" /\ req[r].st = "sent"
        /\ req'[r].st \in {"refreshing", "settled"})
         => /\ req'[r].st = "settled"
            /\ req'[r].refreshes = 0
            /\ ls' = ls
            /\ redirected' = redirected]_vars

\* C28: The pending list is confined to an approver's session.  In every
\* state in which the principal in memory is not an ACTIVE SUPER_ADMIN (or
\* there is none), the pending list in memory is empty.
C28_PendingListConfined ==
  ~(user.role = "SUPER_ADMIN" /\ user.status = "ACTIVE")
    => pendingAdmins = <<>>

\* C21: Redirects preserve the intended destination.  Whenever a guard has
\* answered with the sign-in location, that location carries the path the
\* navigation was going to; and whenever the pipeline has sent the browser to
\* sign-in, the location it assigned carries a path to return to.
C21_RedirectKeepsDestination ==
  /\ (nav.pc = "done" /\ nav.result.name = "Login")
       => (nav.result.redirect = nav.to /\ nav.to \in Paths)
  /\ redirected => LoginPage.redirect \in Paths

C23_FailClosedDecode ==
  LET failsClosed(token) ==
        \/ Len(token) < 2
        \/ token[2].enc # "text"
        \/ ~token[2].valid
        \/ token[2].value.type # "object"
  IN  /\ ret.op = "parseJwtPayload"
           => /\ ret.res # Throws
              /\ failsClosed(ret.via) => ret.res = JNull
      /\ ret.op = "isTokenExpiringSoon"
           => LET token == ret.via.token
              IN  IF failsClosed(token) \/ token[2].value.exp = <<>>
                    THEN ret.res = TRUE
                    ELSE ret.res = (token[2].value.exp[1] * 1000 - ret.via.now
                                      < 5 * 60 * 1000)

====
